---- MODULE Spec2Model ----
\* Verification model of the vimdoku Sudoku domain engine:
\*   - GridSvc       (typed 9x9 grid, src/unnamed/part_004)
\*   - SolutionService (generator, validator, (de)serialisation, src/unnamed/part_003)
EXTENDS Integers, Sequences, FiniteSets, TLC

VARIABLES
    value,      \* #fillSolution: the matrix being filled (number[][])
    i,          \* #fillSolution: outer loop index
    j,          \* #fillSolution: inner loop index
    pc,         \* position of the running operation
    data,       \* GridSvc.#data of the grid under query (rows of cells)
    op,         \* the query made on the grid: name and arguments
    ret,        \* what the query returned: "true", "false", "throw" or "none"
    calls,      \* the callback invocations of the query, in order: <<arg1, arg2, position>>
    rowsH,      \* the row arrays, by address
    matsH,      \* the outer arrays (and plain objects), by address
    grids,      \* GridSvc instances: the address held in #data
    sols,       \* SolutionService instances: the grid instance held in #grid
    held,       \* the arrays the caller holds and where it got them
    text,       \* the last text made by JSON.stringify and the solution it came from
    thrown,     \* the error raised by the last call
    res,        \* what the last call returned: an instance or an address
    nops        \* number of calls made

genVars == <<value, i, j>>
qryVars == <<data, op, ret, calls>>
heapVars == <<rowsH, matsH, grids, sols, held, text, thrown, res, nops>>
vars == <<value, i, j, pc, data, op, ret, calls, rowsH, matsH, grids, sols, held, text, thrown, res, nops>>

-----------------------------------------------------------------------------
\* Bounds

\* number of distinct shuffles randomNumbers() may return in the model
NumShuffles == 2

\* number of calls made on the grid and solution objects
MaxOps == 2

\* TimerService data values 0..MaxSeconds are formatted and parsed back
MaxSeconds == 3700

\* number of changeLang / load calls made on one I18nSvc
MaxCalls == 3

-----------------------------------------------------------------------------
\* Shared helpers (share/utils, share/domain)

Idx == 0..8
Digits == 1..9

\* Pos: { y, x }
Positions == [y : Idx, x : Idx]

\* iterateMatrix(n): the n*n positions in row-major order
iterateMatrix(n) == [k \in 1..(n * n) |-> [y |-> (k - 1) \div n, x |-> (k - 1) % n]]

\* createMatrix(n, mapFn) with a constant mapFn
createMatrix(n, v) == [r \in 1..n |-> [c \in 1..n |-> v]]

\* box.row(index, row) / box.col(index, col): the index-th cell of the box of (row, col)
box_row(k, row) == 3 * (row \div 3) + (k \div 3)
box_col(k, col) == 3 * (col \div 3) + (k % 3)

\* a[y][x] on zero-based indices
At(m, y, x) == m[y + 1][x + 1]

\* a[y][x] = v
Put(m, y, x, v) == [m EXCEPT ![y + 1][x + 1] = v]

\* Array.prototype.reverse
Reverse(s) == [k \in 1..Len(s) |-> s[Len(s) + 1 - k]]

\* randomNumbers(): a shuffle of 1..9; the model draws it from NumShuffles rotations
ShuffleOffsets == <<0, 2, 1, 4, 3, 5, 6, 7, 8>>
Rotation(o) == [n \in 1..9 |-> ((n - 1 + o) % 9) + 1]
randomNumbers == {Rotation(ShuffleOffsets[k]) : k \in 1..NumShuffles}

\* the position of the k-th cell in row-major order, k in 0..80
PosAt(k) == [y |-> k \div 9, x |-> k % 9]

\* PosSvc.equalsPos
equalsPos(a, b) == a.y = b.y /\ a.x = b.x

\* PosSvc.getBoxFromPos
getBoxFromPos(p) == (p.y \div 3) * 3 + (p.x \div 3)

\* PosSvc.areRelated: same row, same column or same box (no self exclusion)
areRelated(a, b) == a.y = b.y \/ a.x = b.x \/ getBoxFromPos(a) = getBoxFromPos(b)

-----------------------------------------------------------------------------
\* SolutionService.#cellIsSafe

cellIsSafeNoCol(v, num, row, col) ==
    /\ At(v, row, col) = 0
    /\ \A k \in 0..8 :
        /\ At(v, row, k) # num
        /\ At(v, box_row(k, row), box_col(k, col)) # num

cellIsSafe(v, num, row, col) ==
    /\ At(v, row, col) = 0
    /\ \A k \in 0..8 :
        /\ At(v, row, k) # num
        /\ At(v, k, col) # num
        /\ At(v, box_row(k, row), box_col(k, col)) # num

\* for (const num of numbers) if (cellIsSafe(value, num, {row, col})) value[row][col] = num
\* (the one-element sets bind each intermediate matrix to its value)
RECURSIVE placeFrom(_, _, _, _, _)
placeFrom(v, numbers, k, row, col) ==
    IF k > Len(numbers) THEN v
    ELSE LET step == IF cellIsSafe(v, numbers[k], row, col)
                     THEN Put(v, row, col, numbers[k])
                     ELSE v
         IN CHOOSE r \in {placeFrom(w, numbers, k + 1, row, col) : w \in {step}} : TRUE

\* the body of the inner loop up to the retry test:
\* numbers fill (row, col), then numbers.reverse() fill (col, row)
fillPair(v, numbers, row, col) ==
    CHOOSE r \in {placeFrom(w[1], w[2], 1, col, row) :
                    w \in {<<placeFrom(v, numbers, 1, row, col), Reverse(numbers)>>}} : TRUE

\* a retry test that looks at value[i][j] only
needsRetryFirstCell(v, row, col) == At(v, row, col) = 0

\* the retry test of the inner loop
needsRetry(v, row, col) == At(v, row, col) = 0 \/ At(v, col, row) = 0

-----------------------------------------------------------------------------
\* SolutionService.#fillSolution as a state machine: one step per inner-loop iteration

GenInit ==
    /\ value = createMatrix(9, 0)
    /\ i = 0
    /\ j = 0
    /\ pc = "fill"
    /\ data = <<>>
    /\ op = [name |-> "none"]
    /\ ret = "none"
    /\ calls = <<>>
    /\ rowsH = <<>>
    /\ matsH = <<>>
    /\ grids = <<>>
    /\ sols = <<>>
    /\ held = <<>>
    /\ text = [of |-> 0, tokens |-> <<>>]
    /\ thrown = [name |-> "none"]
    /\ res = 0
    /\ nops = 0

FillStepKeepsValue(numbers) ==
    /\ pc = "fill"
    /\ i < 9
    /\ \E v2 \in {fillPair(value, numbers, i, j)} :
         IF needsRetry(v2, i, j)
         THEN \* retry() that forgets to empty the matrix
              /\ value' = v2
              /\ i' = 0
              /\ j' = 0
         ELSE /\ value' = v2
              /\ IF j + 1 < 9
                 THEN i' = i /\ j' = j + 1
                 ELSE i' = i + 1 /\ j' = i + 1
    /\ pc' = pc
    /\ UNCHANGED <<qryVars, heapVars>>

FillStep(numbers) ==
    /\ pc = "fill"
    /\ i < 9
    /\ \E v2 \in {fillPair(value, numbers, i, j)} :
         IF needsRetry(v2, i, j)
         THEN \* retry(): value = createMatrix(9, () => 0); i = -1; break; then i++
              /\ value' = createMatrix(9, 0)
              /\ i' = 0
              /\ j' = 0
         ELSE /\ value' = v2
              /\ IF j + 1 < 9
                 THEN i' = i /\ j' = j + 1
                 ELSE i' = i + 1 /\ j' = i + 1
    /\ pc' = pc
    /\ UNCHANGED <<qryVars, heapVars>>

\* return new GridService(value)
FillReturn ==
    /\ pc = "fill"
    /\ i >= 9
    /\ pc' = "done"
    /\ UNCHANGED genVars
    /\ UNCHANGED <<qryVars, heapVars>>

GenNext ==
    \/ \E numbers \in randomNumbers : FillStep(numbers)
    \/ FillReturn

SpecGen == GenInit /\ [][GenNext]_vars

\* the loop always runs on: the generator is a single synchronous computation
LiveGen == SpecGen /\ WF_vars(GenNext)

-----------------------------------------------------------------------------
\* GridSvc queries on the backing data (src/unnamed/part_004)

\* what reading past the end of a row yields
undefined == 0 - 1

\* this.#data[y] exists (otherwise this.#data[y][x] raises a TypeError)
hasRow(d, y) == y < Len(d)

\* GridSvc.getCell: this.#data[y][x], for a row that exists
getCell(d, pos) ==
    IF pos.x < Len(d[pos.y + 1]) THEN d[pos.y + 1][pos.x + 1] ELSE undefined

\* PosSvc.getInitsBox: the top-left position of the box of pos
getInitsBox(pos) == [y |-> (pos.y \div 3) * 3, x |-> (pos.x \div 3) * 3]

\* PosSvc.sumPos
sumPos(a, b) == [y |-> a.y + b.y, x |-> a.x + b.x]

\* iterateArray(9)
iterateArray9 == [k \in 1..9 |-> k - 1]

iterateMatrix9 == iterateMatrix(9)
iterateMatrix3 == iterateMatrix(3)

\* the comparison callbacks (CompareCBFn) the callers pass
CompareFns == {"same", "differ", "upperHalf", "firstLess"}

applyCompare(fn, compareCell, currCell, position) ==
    CASE fn = "same" -> compareCell = currCell
      [] fn = "differ" -> compareCell # currCell
      [] fn = "upperHalf" -> position.y < 5
      [] fn = "firstLess" -> compareCell < currCell

\* the call made with the two cells exchanged:
\* fn(this.getCell(currPos), this.getCell(cellPos), currPos)
compareArgsSwapped(d, cellPos, currPos) == <<getCell(d, currPos), getCell(d, cellPos), currPos>>

\* the arguments of one call of the compare methods:
\* fn(this.getCell(cellPos), this.getCell(currPos), currPos)
compareArgs(d, cellPos, currPos) == <<getCell(d, cellPos), getCell(d, currPos), currPos>>

\* the loop shared by the four compare methods: visit the candidates in order,
\* call fn(getCell(cellPos), getCell(currPos), currPos), stop at the first false
RECURSIVE compareScan(_, _, _, _, _, _)
compareScan(d, cellPos, fn, cands, k, called) ==
    IF k > Len(cands) THEN [ret |-> "true", calls |-> called]
    ELSE IF ~hasRow(d, cellPos.y) \/ ~hasRow(d, cands[k].y)
         THEN [ret |-> "throw", calls |-> called]
         ELSE LET c == compareArgs(d, cellPos, cands[k])
                  now == Append(called, c)
              IN IF ~applyCompare(fn, c[1], c[2], c[3])
                 THEN [ret |-> "false", calls |-> now]
                 ELSE compareScan(d, cellPos, fn, cands, k + 1, now)

\* GridSvc.compareRelated: the candidates are the positions with areRelated(cellPos, currPos)
compareRelatedCands(cellPos) ==
    SelectSeq(iterateMatrix9, LAMBDA currPos : areRelated(cellPos, currPos))

compareRelated(d, cellPos, fn) == compareScan(d, cellPos, fn, compareRelatedCands(cellPos), 1, <<>>)

\* GridSvc.compareWithBox
compareWithBoxCands(cellPos) ==
    SelectSeq([k \in 1..9 |-> sumPos(iterateMatrix3[k], getInitsBox(cellPos))],
              LAMBDA currPos : ~equalsPos(cellPos, currPos))

compareWithBox(d, cellPos, fn) == compareScan(d, cellPos, fn, compareWithBoxCands(cellPos), 1, <<>>)

\* GridSvc.compareWithCol
compareWithColCands(cellPos) ==
    SelectSeq([k \in 1..9 |-> [y |-> iterateArray9[k], x |-> cellPos.x]],
              LAMBDA currPos : currPos.y # cellPos.y)

compareWithCol(d, cellPos, fn) == compareScan(d, cellPos, fn, compareWithColCands(cellPos), 1, <<>>)

\* GridSvc.compareWithRow
compareWithRowCands(cellPos) ==
    SelectSeq([k \in 1..9 |-> [y |-> cellPos.y, x |-> iterateArray9[k]]],
              LAMBDA currPos : currPos.x # cellPos.x)

compareWithRow(d, cellPos, fn) == compareScan(d, cellPos, fn, compareWithRowCands(cellPos), 1, <<>>)

\* SolutionService.check: a TypeError "Cannot read properties of undefined
\* (reading '0'..'8')" is caught and turned into false
RECURSIVE checkFrom(_, _)
checkFrom(d, k) ==
    IF k > 81 THEN "true"
    ELSE LET r == compareRelated(d, iterateMatrix9[k], "same").ret
         IN IF r = "throw" THEN "false"
            ELSE IF r = "true" THEN "false"
            ELSE checkFrom(d, k + 1)

check(d) == checkFrom(d, 1)

-----------------------------------------------------------------------------
\* The grids the queries are made on

\* a valid solution: row r is the digits 1..9 rotated by 3 * (r % 3) + r \div 3
BaseSolution == [r \in 1..9 |-> [c \in 1..9 |-> ((3 * ((r - 1) % 3) + ((r - 1) \div 3) + (c - 1)) % 9) + 1]]

\* positions at which the test grids are altered
EditPositions == {[y |-> 0, x |-> 0], [y |-> 4, x |-> 7], [y |-> 8, x |-> 3]}

\* the well-formed 9x9 grids: the valid solution, the solution with one cell
\* overwritten by any digit, and the grids holding one digit everywhere
WellFormedGrids ==
    {Put(BaseSolution, p.y, p.x, n) : p \in EditPositions, n \in Digits}
        \cup {createMatrix(9, n) : n \in 4..5}

\* a row without its last cell
dropLast(row) == SubSeq(row, 1, Len(row) - 1)

\* grids of the wrong shape: rows missing, rows shorter than 9 cells
MalformedGrids ==
    {SubSeq(g, 1, 8) : g \in WellFormedGrids}
        \cup {[g EXCEPT ![r] = dropLast(g[r])] : g \in {BaseSolution}, r \in {1, 5, 9}}
        \cup {[r \in 1..9 |-> dropLast(BaseSolution[r])], <<>>}

TestGrids == WellFormedGrids \cup MalformedGrids

isNineByNine(d) == Len(d) = 9 /\ \A r \in 1..9 : Len(d[r]) = 9

QueryPositions == {PosAt(k) : k \in 0..80}

QryInit ==
    /\ data \in TestGrids
    /\ op = [name |-> "none"]
    /\ ret = "none"
    /\ calls = <<>>
    /\ value = <<>>
    /\ i = 0
    /\ j = 0
    /\ pc = "query"
    /\ rowsH = <<>>
    /\ matsH = <<>>
    /\ grids = <<>>
    /\ sols = <<>>
    /\ held = <<>>
    /\ text = [of |-> 0, tokens |-> <<>>]
    /\ thrown = [name |-> "none"]
    /\ res = 0
    /\ nops = 0

\* Solution.check(grid)
Check ==
    /\ pc = "query"
    /\ op' = [name |-> "check"]
    /\ ret' = check(data)
    /\ calls' = <<>>
    /\ pc' = "returned"
    /\ UNCHANGED <<data, genVars, heapVars>>

Compared(name, cellPos, fn, r) ==
    /\ pc = "query"
    /\ op' = [name |-> name, cellPos |-> cellPos, fn |-> fn]
    /\ ret' = r.ret
    /\ calls' = r.calls
    /\ pc' = "returned"
    /\ UNCHANGED <<data, genVars, heapVars>>

CompareRelated(cellPos, fn) == Compared("compareRelated", cellPos, fn, compareRelated(data, cellPos, fn))
CompareWithBox(cellPos, fn) == Compared("compareWithBox", cellPos, fn, compareWithBox(data, cellPos, fn))
CompareWithCol(cellPos, fn) == Compared("compareWithCol", cellPos, fn, compareWithCol(data, cellPos, fn))
CompareWithRow(cellPos, fn) == Compared("compareWithRow", cellPos, fn, compareWithRow(data, cellPos, fn))

QryNext ==
    \/ Check
    \/ \E cellPos \in QueryPositions, fn \in CompareFns : CompareRelated(cellPos, fn)
    \/ \E cellPos \in QueryPositions, fn \in CompareFns : CompareWithBox(cellPos, fn)
    \/ \E cellPos \in QueryPositions, fn \in CompareFns : CompareWithCol(cellPos, fn)
    \/ \E cellPos \in QueryPositions, fn \in CompareFns : CompareWithRow(cellPos, fn)

SpecQuery == QryInit /\ [][QryNext]_vars

-----------------------------------------------------------------------------
\* GridSvc transforms on the backing data (src/unnamed/part_004)

\* the mapping callbacks (CBFn<T, U>) the callers pass
MapFns == {"succ", "posCode"}

applyMap(fn, cell, pos) ==
    CASE fn = "succ" -> (cell % 9) + 1
      [] fn = "posCode" -> 10 + 9 * pos.y + pos.x

\* the filters passed to mapFiltered
FilterFns == {"isOdd", "onDiagonal"}

applyFilter(fn, cell, pos) ==
    CASE fn = "isOdd" -> cell % 2 = 1
      [] fn = "onDiagonal" -> pos.y = pos.x

\* GridSvc.#mapData: this.#data.map((row, y) => row.map((cell, x) => mapFn(cell, { y, x })))
\* (the callbacks are function values over cells and positions)
mapData(d, mapFn) ==
    [r \in 1..Len(d) |-> [c \in 1..Len(d[r]) |-> mapFn[d[r][c], [y |-> r - 1, x |-> c - 1]]]]

\* GridSvc.#condMap: (cell, pos) => (cond(pos) ? map(cell, pos) : cell)
condMap(cond, map) ==
    [cell \in Int, pos \in Positions |-> IF cond[pos] THEN map[cell, pos] ELSE cell]

\* the caller's callback fn as a function value
callback(fn) == [cell \in Int, pos \in Positions |-> applyMap(fn, cell, pos)]

\* GridSvc.mapBox
mapBox(d, b, fn) ==
    mapData(d, condMap([curr \in Positions |-> getBoxFromPos(curr) = b], callback(fn)))

\* GridSvc.mapCol
mapCol(d, x, fn) ==
    mapData(d, condMap([curr \in Positions |-> curr.x = x], callback(fn)))

\* GridSvc.mapFiltered
mapFiltered(d, filter, fn) ==
    mapData(d, [cell \in Int, currPos \in Positions |->
        IF applyFilter(filter, cell, currPos) THEN applyMap(fn, cell, currPos) ELSE cell])

\* GridSvc.mapGrid
mapGrid(d, fn) == mapData(d, callback(fn))

\* GridSvc.mapRelated
mapRelated(d, cellPos, fn) ==
    mapData(d, condMap([curr \in Positions |-> ~equalsPos(cellPos, curr) /\ areRelated(cellPos, curr)],
                       callback(fn)))

\* GridSvc.mapRow
mapRow(d, y, fn) ==
    mapData(d, condMap([curr \in Positions |-> curr.y = y], callback(fn)))

\* GridSvc.editCell
editCell(d, cellPos, fn) ==
    mapData(d, [cell \in Int, pos \in Positions |->
        IF equalsPos(cellPos, pos) THEN applyMap(fn, getCell(d, cellPos), cellPos) ELSE cell])

\* the mapping of the data getter: cell => cell
copyData(d) == mapData(d, [cell \in Int, pos \in Positions |-> cell])

-----------------------------------------------------------------------------
\* The arrays as objects: rowsH holds the row arrays, matsH the outer values
\* (an array of row references, or a plain object), both addressed by index

theHeap == [rows |-> rowsH, mats |-> matsH]

\* the cell values reachable from the outer array at address a
derefIn(h, a) == [r \in 1..Len(h.mats[a].rows) |-> h.rows[h.mats[a].rows[r]]]

deref(a) == derefIn(theHeap, a)

\* Array.prototype.map in #mapData writes the mapped cells d into the arrays
\* of a itself instead of new ones
sameArrays(h, a, d) ==
    [rows |-> [k \in 1..Len(h.rows) |->
                 IF \E r \in 1..Len(d) : h.mats[a].rows[r] = k
                 THEN d[CHOOSE r \in 1..Len(d) : h.mats[a].rows[r] = k]
                 ELSE h.rows[k]],
     mats |-> h.mats,
     addr |-> a]

\* Array.prototype.map in #mapData: the mapped cells d of the array at a are
\* stored in new arrays, one per row and one holding the rows
freshArrays(h, a, d) ==
    [rows |-> h.rows \o d,
     mats |-> Append(h.mats, [kind |-> "array", rows |-> [r \in 1..Len(d) |-> Len(h.rows) + r]]),
     addr |-> Len(h.mats) + 1]

\* the data getter hands out this.#data itself
gridDataAlias(h, a) == [rows |-> h.rows, mats |-> h.mats, addr |-> a]

\* GridSvc.data: this.#mapData(cell => cell)
gridData(h, a) == freshArrays(h, a, copyData(derefIn(h, a)))

\* a new outer value of the given kind whose rows are new arrays holding d
newValue(h, kind, d) ==
    [rows |-> h.rows \o d,
     mats |-> Append(h.mats, [kind |-> kind, rows |-> [r \in 1..Len(d) |-> Len(h.rows) + r]]),
     addr |-> Len(h.mats) + 1]

-----------------------------------------------------------------------------
\* JSON text as a sequence of tokens; a number is written as its decimal digit

DigitTokens == <<"0", "1", "2", "3", "4", "5", "6", "7", "8", "9">>

isNumToken(t) == \E n \in 1..10 : DigitTokens[n] = t

\* String(n) for a single digit
numToken(n) == DigitTokens[n + 1]

\* Number(t) for a single digit
tokenNum(t) == (CHOOSE n \in 1..10 : DigitTokens[n] = t) - 1

\* parts[1] , parts[2] , ... with "," in between
RECURSIVE commaJoin(_, _)
commaJoin(parts, k) ==
    IF k > Len(parts) THEN <<>>
    ELSE IF k = Len(parts) THEN parts[k]
    ELSE parts[k] \o <<",">> \o commaJoin(parts, k + 1)

\* JSON.stringify of an array of arrays of digits, or of an object without
\* enumerable properties
JSONstringify(kind, d) ==
    IF kind = "object" THEN <<"{", "}">>
    ELSE <<"[">>
         \o commaJoin([r \in 1..Len(d) |->
                <<"[">> \o commaJoin([c \in 1..Len(d[r]) |-> <<numToken(d[r][c])>>], 1) \o <<"]">>], 1)
         \o <<"]">>

SyntaxError == [ok |-> FALSE, kind |-> "none", rows |-> <<>>]

\* JSON.parse on the texts "{}" and arrays of arrays of digits; anything else
\* in the input set is not JSON.
tokenAt(t, k) == IF k <= Len(t) THEN t[k] ELSE "end of input"

\* the digits of a row from token k on, up to the closing "]"
RECURSIVE parseNums(_, _, _)
parseNums(t, k, cur) ==
    IF ~isNumToken(tokenAt(t, k)) THEN [ok |-> FALSE, row |-> <<>>, next |-> k]
    ELSE IF tokenAt(t, k + 1) = ","
         THEN CHOOSE r \in {parseNums(t, k + 2, w) : w \in {Append(cur, tokenNum(t[k]))}} : TRUE
         ELSE IF tokenAt(t, k + 1) = "]"
              THEN [ok |-> TRUE, row |-> Append(cur, tokenNum(t[k])), next |-> k + 2]
              ELSE [ok |-> FALSE, row |-> <<>>, next |-> k]

\* one row "[ ... ]" starting at token k
parseRow(t, k) ==
    IF tokenAt(t, k) # "[" THEN [ok |-> FALSE, row |-> <<>>, next |-> k]
    ELSE IF tokenAt(t, k + 1) = "]" THEN [ok |-> TRUE, row |-> <<>>, next |-> k + 2]
    ELSE parseNums(t, k + 1, <<>>)

\* the rows of the outer array from token k on, up to the closing "]" that ends the text
RECURSIVE parseRows(_, _, _)
parseRows(t, k, acc) ==
    CHOOSE p \in {
        IF ~r.ok THEN SyntaxError
        ELSE IF tokenAt(t, r.next) = ","
             THEN parseRows(t, r.next + 1, Append(acc, r.row))
             ELSE IF tokenAt(t, r.next) = "]" /\ r.next = Len(t)
                  THEN [ok |-> TRUE, kind |-> "array", rows |-> Append(acc, r.row)]
                  ELSE SyntaxError
        : r \in {parseRow(t, k)}} : TRUE

JSONparse(t) ==
    IF tokenAt(t, 1) = "{"
    THEN (IF Len(t) = 2 /\ t[2] = "}" THEN [ok |-> TRUE, kind |-> "object", rows |-> <<>>] ELSE SyntaxError)
    ELSE IF tokenAt(t, 1) = "["
         THEN (IF tokenAt(t, 2) = "]"
               THEN (IF Len(t) = 2 THEN [ok |-> TRUE, kind |-> "array", rows |-> <<>>] ELSE SyntaxError)
               ELSE parseRows(t, 2, <<>>))
         ELSE SyntaxError

-----------------------------------------------------------------------------
\* Objects: GridSvc and SolutionService instances, and what the caller holds

NoError == [name |-> "none"]
TypeError == [name |-> "TypeError"]

\* InvalidSolutionError(solutionLike, err)
InvalidSolutionError(solutionLike, err) ==
    [name |-> "InvalidSolutionError", text |-> solutionLike, cause |-> err]

\* this.#data.map exists
canMap(a) == matsH[a].kind = "array"

\* SolutionService.toJSON returns the grid object, which has no enumerable property
toJSONGrid(h, s) == newValue(h, "object", <<>>)

\* SolutionService.toJSON: this.#grid.value
toJSON(h, s) == gridData(h, grids[sols[s]])

\* the cell values of grid instance g and of solution instance s
gridValues(g) == deref(grids[g])
solValues(s) == deref(grids[sols[s]])

\* valid solutions a SolutionService can hold
ValidSolutions == {BaseSolution, [r \in 1..9 |-> [c \in 1..9 |-> 10 - BaseSolution[r][c]]]}

\* the state after Solution.create(): one solution owning one grid
HeapInit ==
    /\ \E s0 \in ValidSolutions :
         /\ rowsH = s0
         /\ matsH = <<[kind |-> "array", rows |-> [r \in 1..9 |-> r]]>>
    /\ grids = <<1>>
    /\ sols = <<1>>
    /\ held = <<>>
    /\ text = [of |-> 0, tokens |-> <<>>]
    /\ thrown = NoError
    /\ res = 0
    /\ nops = 0
    /\ op = [name |-> "none"]
    /\ pc = "heap"
    /\ value = <<>>
    /\ i = 0
    /\ j = 0
    /\ data = <<>>
    /\ ret = "none"
    /\ calls = <<>>

\* the effect of one call: o is the call, h the heap after it
Finish(o, h, gs, ss, hd, tx, th, r) ==
    /\ op' = o
    /\ rowsH' = h.rows
    /\ matsH' = h.mats
    /\ grids' = gs
    /\ sols' = ss
    /\ held' = hd
    /\ text' = tx
    /\ thrown' = th
    /\ res' = r
    /\ nops' = nops + 1
    /\ pc' = pc
    /\ UNCHANGED <<genVars, data, ret, calls>>

\* a call that raises: nothing is created
Raise(o, err) == Finish(o, theHeap, grids, sols, held, text, err, 0)

\* the map methods: const newData = this.#mapData(...); return new GridSvc(newData)
Mapped(o, g, d) ==
    /\ pc = "heap"
    /\ nops < MaxOps
    /\ IF canMap(grids[g])
       THEN \E h \in {freshArrays(theHeap, grids[g], d)} :
              Finish(o, h, Append(grids, h.addr), sols, held, text, NoError, Len(grids) + 1)
       ELSE Raise(o, TypeError)

MapBox(g, b, fn) == Mapped([name |-> "mapBox", recv |-> g, idx |-> b, fn |-> fn], g, mapBox(gridValues(g), b, fn))
MapCol(g, x, fn) == Mapped([name |-> "mapCol", recv |-> g, idx |-> x, fn |-> fn], g, mapCol(gridValues(g), x, fn))
MapFiltered(g, filter, fn) ==
    Mapped([name |-> "mapFiltered", recv |-> g, filter |-> filter, fn |-> fn], g, mapFiltered(gridValues(g), filter, fn))
MapGrid(g, fn) == Mapped([name |-> "mapGrid", recv |-> g, fn |-> fn], g, mapGrid(gridValues(g), fn))
MapRelated(g, cellPos, fn) ==
    Mapped([name |-> "mapRelated", recv |-> g, pos |-> cellPos, fn |-> fn], g, mapRelated(gridValues(g), cellPos, fn))
MapRow(g, y, fn) == Mapped([name |-> "mapRow", recv |-> g, idx |-> y, fn |-> fn], g, mapRow(gridValues(g), y, fn))
EditCell(g, cellPos, fn) ==
    Mapped([name |-> "editCell", recv |-> g, pos |-> cellPos, fn |-> fn], g, editCell(gridValues(g), cellPos, fn))

\* a call that hands out a copy of the data of grid g: as a new grid instance
\* (asGrid) or as arrays the caller holds
HandOut(o, g, asGrid) ==
    /\ pc = "heap"
    /\ nops < MaxOps
    /\ IF canMap(grids[g])
       THEN \E h \in {gridData(theHeap, grids[g])} :
              IF asGrid
              THEN Finish(o, h, Append(grids, h.addr), sols, held, text, NoError, Len(grids) + 1)
              ELSE Finish(o, h, grids, sols, Append(held, [addr |-> h.addr, via |-> o.name]), text,
                          NoError, h.addr)
       ELSE Raise(o, TypeError)

\* GridSvc.copy: new GridSvc(this.data)
GridCopy(g) == HandOut([name |-> "copy", recv |-> g], g, TRUE)

\* GridSvc.data
GridData(g) == HandOut([name |-> "data", recv |-> g], g, FALSE)

\* SolutionService.grid: this.#grid.copy()
SolGrid(s) == HandOut([name |-> "grid", recv |-> sols[s], sol |-> s], sols[s], TRUE)

\* SolutionService.toJSON / value, called by the caller
SolToJSON(s) ==
    /\ pc = "heap"
    /\ nops < MaxOps
    /\ LET o == [name |-> "toJSON", recv |-> sols[s], sol |-> s] IN
       IF canMap(grids[sols[s]])
       THEN \E h \in {toJSON(theHeap, s)} :
              Finish(o, h, grids, sols, Append(held, [addr |-> h.addr, via |-> "toJSON"]), text,
                     NoError, h.addr)
       ELSE Raise(o, TypeError)

\* JSON.stringify(solution): the text of solution.toJSON(); the array made for
\* it is dropped afterwards
Serialize(s) ==
    /\ pc = "heap"
    /\ nops < MaxOps
    /\ canMap(grids[sols[s]])
    /\ \E h \in {toJSON(theHeap, s)} :
         Finish([name |-> "stringify", sol |-> s], theHeap, grids, sols, held,
                [of |-> s, tokens |-> JSONstringify(h.mats[h.addr].kind, derefIn(h, h.addr))],
                NoError, 0)

\* texts given to fromString besides serialized solutions:
\* "not json", "{}", a cut-off array, "[]", "[[1,2,3]]" and a 9x9 array cut to 8 rows
TestTexts ==
    { <<"not", "json">>,
      <<"{", "}">>,
      <<"[", "[", "1", ",", "2">>,
      <<"[", "]">>,
      <<"[", "[", "1", ",", "2", ",", "3", "]", "]">>,
      JSONstringify("array", SubSeq(BaseSolution, 1, 8)) }

\* SolutionService.fromString
FromString(solutionLike) ==
    /\ pc = "heap"
    /\ nops < MaxOps
    /\ LET o == [name |-> "fromString", text |-> solutionLike] IN
       \E initSolution \in {JSONparse(solutionLike)} :
         IF ~initSolution.ok
         THEN Raise(o, InvalidSolutionError(solutionLike, "SyntaxError"))
         ELSE \E h \in {newValue(theHeap, initSolution.kind, initSolution.rows)} :
                Finish(o, h, Append(grids, h.addr), Append(sols, Len(grids) + 1), held, text,
                       NoError, Len(sols) + 1)

\* data the caller builds and passes to new GridSvc(data)
ConstructData ==
    {BaseSolution, SubSeq(BaseSolution, 1, 8), [BaseSolution EXCEPT ![5] = dropLast(BaseSolution[5])], <<>>}

\* GridSvc.constructor: this.#data = data, the caller's own arrays
NewGrid(d) ==
    /\ pc = "heap"
    /\ nops < MaxOps
    /\ \E h \in {newValue(theHeap, "array", d)} :
         Finish([name |-> "new", data |-> d], h, Append(grids, h.addr), sols,
                Append(held, [addr |-> h.addr, via |-> "own"]), text, NoError, Len(grids) + 1)

\* the caller writes v into cell pos of an array it holds: arr[y][x] = v
WritePositions == {[y |-> 0, x |-> 0], [y |-> 8, x |-> 8]}

CallerWrite(k, pos, v) ==
    /\ pc = "heap"
    /\ nops < MaxOps
    /\ pos.y < Len(matsH[held[k].addr].rows)
    /\ pos.x < Len(rowsH[matsH[held[k].addr].rows[pos.y + 1]])
    /\ Finish([name |-> "write", held |-> k, via |-> held[k].via, pos |-> pos, v |-> v],
              [rows |-> [rowsH EXCEPT ![matsH[held[k].addr].rows[pos.y + 1]][pos.x + 1] = v],
               mats |-> matsH],
              grids, sols, held, text, NoError, 0)

\* inputs of the transforms
ScopeIndexes == {0, 4}
MapPositions == {[y |-> 0, x |-> 0], [y |-> 4, x |-> 7]}

MapNext ==
    \/ \E g \in 1..Len(grids), b \in ScopeIndexes, fn \in MapFns : MapBox(g, b, fn)
    \/ \E g \in 1..Len(grids), x \in ScopeIndexes, fn \in MapFns : MapCol(g, x, fn)
    \/ \E g \in 1..Len(grids), filter \in FilterFns, fn \in MapFns : MapFiltered(g, filter, fn)
    \/ \E g \in 1..Len(grids), fn \in MapFns : MapGrid(g, fn)
    \/ \E g \in 1..Len(grids), cellPos \in MapPositions, fn \in MapFns : MapRelated(g, cellPos, fn)
    \/ \E g \in 1..Len(grids), y \in ScopeIndexes, fn \in MapFns : MapRow(g, y, fn)
    \/ \E g \in 1..Len(grids), cellPos \in MapPositions, fn \in MapFns : EditCell(g, cellPos, fn)
    \/ \E g \in 1..Len(grids) : GridCopy(g)

SpecMap == HeapInit /\ [][MapNext]_vars

StoreNext ==
    \/ \E d \in ConstructData : NewGrid(d)
    \/ \E solutionLike \in TestTexts \cup {text.tokens} : FromString(solutionLike)
    \/ \E s \in 1..Len(sols) : Serialize(s)
    \/ \E s \in 1..Len(sols) : SolGrid(s)
    \/ \E s \in 1..Len(sols) : SolToJSON(s)
    \/ \E g \in 1..Len(grids) : GridData(g)
    \/ \E g \in 1..Len(grids) : GridCopy(g)
    \/ \E k \in 1..Len(held), pos \in WritePositions : CallerWrite(k, pos, 0)

SpecStore == HeapInit /\ [][StoreNext]_vars

-----------------------------------------------------------------------------
\* C1: at every step of generation the non-zero cells of the partial grid hold
\* no duplicate among distinct related positions, and the returned grid has a
\* digit 1..9 at all 81 positions.
\* the cells (row-major index 0..80) related to cell p and different from it
OtherRelated ==
    [p \in 0..80 |-> {q \in 0..80 : q # p /\ areRelated(PosAt(p), PosAt(q))}]

CellAt(v, p) == v[(p \div 9) + 1][(p % 9) + 1]

NoRelatedDuplicate(v) ==
    \A p \in 0..80 :
        CellAt(v, p) # 0 => \A q \in OtherRelated[p] : CellAt(v, q) # CellAt(v, p)

GeneratedGridValid ==
    /\ NoRelatedDuplicate(value)
    /\ pc = "done" => \A p \in 0..80 : CellAt(value, p) \in Digits

GeneratedGridWitness == pc = "done" /\ \A p \in 0..80 : CellAt(value, p) \in Digits

-----------------------------------------------------------------------------
\* C2: for every well-formed 9x9 grid, Solution.check returns true exactly
\* when no two distinct related positions hold equal values.
NoEqualRelated(d) ==
    \A p \in 0..80 : \A q \in OtherRelated[p] : CellAt(d, q) # CellAt(d, p)

CheckIffNoEqualRelated ==
    (op.name = "check" /\ isNineByNine(data)) => (ret = "true" <=> NoEqualRelated(data))

-----------------------------------------------------------------------------
\* C3: Solution.fromString fails with InvalidSolutionError carrying the
\* original text and the cause for every text that is not the JSON encoding
\* of a 9x9 array; when it returns, the Solution is built on 9x9 data.
FromStringRejectsNonGrid ==
    op.name = "fromString" =>
        IF thrown.name = "none"
        THEN matsH[grids[sols[res]]].kind = "array" /\ isNineByNine(solValues(res))
        ELSE thrown = InvalidSolutionError(op.text, "SyntaxError")

-----------------------------------------------------------------------------
\* C4: constructing a Grid from data that is not 9 rows of 9 cells fails, and
\* no Grid instance exists whose backing data has another shape.
ConstructorRejectsShape ==
    /\ (op.name = "new" /\ ~isNineByNine(op.data)) => thrown.name # "none"
    /\ \A g \in 1..Len(grids) : matsH[grids[g]].kind = "array" /\ isNineByNine(gridValues(g))

-----------------------------------------------------------------------------
\* C5: Solution.check applied to a grid of the wrong shape returns false and
\* does not throw.
CheckRejectsMalformed ==
    (op.name = "check" /\ ~isNineByNine(data)) => ret = "false"

-----------------------------------------------------------------------------
\* C6: fromString applied to the JSON text of a valid Solution S returns a
\* Solution with the same value as S at each of the 81 positions, held in a
\* distinct instance that shares no array with S.
isValidSolution(d) ==
    /\ isNineByNine(d)
    /\ \A p \in 0..80 : CellAt(d, p) \in Digits
    /\ NoEqualRelated(d)

rowAddrs(s) == {matsH[grids[sols[s]]].rows[r] : r \in 1..Len(matsH[grids[sols[s]]].rows)}

RoundTrip ==
    (op.name = "fromString" /\ text.of # 0 /\ op.text = text.tokens
        /\ isValidSolution(solValues(text.of))) =>
            /\ thrown.name = "none"
            /\ res # text.of
            /\ isNineByNine(solValues(res))
            /\ \A p \in 0..80 : CellAt(solValues(res), p) = CellAt(solValues(text.of), p)
            /\ sols[res] # sols[text.of]
            /\ grids[sols[res]] # grids[sols[text.of]]
            /\ rowAddrs(res) \cap rowAddrs(text.of) = {}

RoundTripWitness ==
    /\ op.name = "fromString"
    /\ text.of # 0
    /\ op.text = text.tokens
    /\ thrown.name = "none"
    /\ isValidSolution(solValues(res))

-----------------------------------------------------------------------------
\* C7: the compare methods call fn only for positions of their scope other
\* than cellPos itself (the 20 related positions for compareRelated, the 8
\* other cells of the row, column or box for the others); they return false
\* at the first call where fn is false and true when fn was true for the
\* whole scope.
CompareNames == {"compareRelated", "compareWithBox", "compareWithCol", "compareWithRow"}

inScope(name, p, q) ==
    /\ ~equalsPos(p, q)
    /\ CASE name = "compareRelated" -> areRelated(p, q)
         [] name = "compareWithBox" -> getBoxFromPos(p) = getBoxFromPos(q)
         [] name = "compareWithCol" -> p.x = q.x
         [] name = "compareWithRow" -> p.y = q.y

callTrue(c) == applyCompare(op.fn, c[1], c[2], c[3])

CompareSkipsSelf ==
    (op.name \in CompareNames /\ isNineByNine(data)) =>
        /\ \A k \in 1..Len(calls) : inScope(op.name, op.cellPos, calls[k][3])
        /\ ret = "true" =>
              /\ \A k \in 1..Len(calls) : callTrue(calls[k])
              /\ \A q \in QueryPositions :
                    inScope(op.name, op.cellPos, q) => \E k \in 1..Len(calls) : calls[k][3] = q
        /\ ret = "false" =>
              /\ Len(calls) > 0
              /\ ~callTrue(calls[Len(calls)])
              /\ \A k \in 1..(Len(calls) - 1) : callTrue(calls[k])

-----------------------------------------------------------------------------
\* C8: a call of mapRow, mapCol, mapBox, mapRelated, mapFiltered, mapGrid,
\* editCell or copy leaves every existing grid with the same value at every
\* position, and the returned grid holds fn(cell, pos) at the positions of the
\* operation's scope and the receiver's value everywhere else.
MapNames == {"mapBox", "mapCol", "mapFiltered", "mapGrid", "mapRelated", "mapRow", "editCell", "copy"}

inMapScope(o, cell, q) ==
    CASE o.name = "mapBox" -> getBoxFromPos(q) = o.idx
      [] o.name = "mapCol" -> q.x = o.idx
      [] o.name = "mapRow" -> q.y = o.idx
      [] o.name = "mapRelated" -> ~equalsPos(o.pos, q) /\ areRelated(o.pos, q)
      [] o.name = "mapFiltered" -> applyFilter(o.filter, cell, q)
      [] o.name = "mapGrid" -> TRUE
      [] o.name = "editCell" -> equalsPos(o.pos, q)
      [] o.name = "copy" -> FALSE

expectedCell(o, cell, q) == IF inMapScope(o, cell, q) THEN applyMap(o.fn, cell, q) ELSE cell

MapFrameStep ==
    (op'.name \in MapNames /\ thrown'.name = "none") =>
        /\ \A g \in 1..Len(grids) :
              derefIn([rows |-> rowsH', mats |-> matsH'], grids'[g]) = gridValues(g)
        /\ derefIn([rows |-> rowsH', mats |-> matsH'], grids'[res'])
              = [r \in 1..9 |-> [c \in 1..9 |->
                    expectedCell(op', gridValues(op'.recv)[r][c], [y |-> r - 1, x |-> c - 1])]]

MapFrame == [][MapFrameStep]_vars

\* a second call, made on the result of a first one, changed some cells
MapFrameWitness ==
    /\ op.name = "mapRelated"
    /\ op.recv > 1
    /\ thrown.name = "none"
    /\ gridValues(res) # gridValues(op.recv)

-----------------------------------------------------------------------------
\* C9: the arrays and grids handed out by the Solution and by its grid are
\* copies: whatever the caller writes into the arrays it holds, every
\* Solution keeps the same 81 values.
SolutionKeepsValuesStep ==
    \A s \in 1..Len(sols) :
        derefIn([rows |-> rowsH', mats |-> matsH'], grids'[sols'[s]]) = solValues(s)

-----------------------------------------------------------------------------
\* C10: generation has no cap on restarts; every run of the generator either
\* returns a completed grid or restarts from the empty grid again and again
\* (so from every reachable state the start state or a completed grid is
\* reached, and a completed grid is reachable from the start state).
AtStart == pc = "fill" /\ i = 0 /\ j = 0 /\ value = createMatrix(9, 0)

ReturnsOrRestartsForever == []<>(AtStart \/ pc = "done")

ReturnsWitness == pc = "done" /\ i = 9 /\ ~AtStart

-----------------------------------------------------------------------------
\* C11: for every candidate visited, the compare methods call fn with the
\* value of the cell at cellPos as the first argument, the candidate cell's
\* value as the second argument and the candidate's position as the third.
CompareArgsAsCoded ==
    op.name \in CompareNames =>
        \A k \in 1..Len(calls) :
            /\ calls[k][1] = getCell(data, op.cellPos)
            /\ calls[k][2] = getCell(data, calls[k][3])

\* a call was made on a candidate whose value differs from the cell at cellPos
CompareArgsWitness ==
    /\ op.name \in CompareNames
    /\ Len(calls) > 1
    /\ calls[2][1] # calls[2][2]
    /\ ~equalsPos(calls[2][3], op.cellPos)

\* C11 as stated: the candidate cell's value is the first argument and the
\* value of the cell at cellPos the second.
CompareArgsCandidateFirst ==
    op.name \in CompareNames =>
        \A k \in 1..Len(calls) :
            /\ calls[k][1] = getCell(data, calls[k][3])
            /\ calls[k][2] = getCell(data, op.cellPos)

-----------------------------------------------------------------------------
\* GridSvc every / some / count (src/unnamed/part_004)

\* the predicates (CBFn<T, boolean>) the callers pass
PredFns == {"isOdd", "onDiagonal", "isDigit", "isEmpty"}

applyPred(fn, cell, pos) ==
    CASE fn = "isOdd" -> cell % 2 = 1
      [] fn = "onDiagonal" -> pos.y = pos.x
      [] fn = "isDigit" -> cell \in Digits
      [] fn = "isEmpty" -> cell = 0

\* PosSvc.getPosFromBox: the top-left position of box number box
getPosFromBox(box) == [y |-> (box \div 3) * 3, x |-> (box % 3) * 3]

\* the positions of a box walked column by column
boxCandsByColumn(box) ==
    [k \in 1..9 |-> sumPos(getPosFromBox(box), [y |-> iterateMatrix3[k].x, x |-> iterateMatrix3[k].y])]

\* everyBox / someBox: for (const pos of iterateMatrix(3)) currPos = sumPos(boxPos, pos)
boxCands(box) == [k \in 1..9 |-> sumPos(getPosFromBox(box), iterateMatrix3[k])]

\* everyCol / someCol: for (const y of iterateArray(9)) { y, x }
colCands(x) == [k \in 1..9 |-> [y |-> iterateArray9[k], x |-> x]]

\* everyRow / someRow: this.#data[y].every((cell, x) => ...) walks the cells the row has
rowCands(d, y) == [k \in 1..Len(d[y + 1]) |-> [y |-> y, x |-> k - 1]]

\* everyGrid / someGrid: this.#data.every((row, y) => row.every((cell, x) => ...))
RECURSIVE gridCands(_, _)
gridCands(d, y) == IF ~hasRow(d, y) THEN <<>> ELSE rowCands(d, y) \o gridCands(d, y + 1)

\* the loop of every (stopOn = FALSE) and some (stopOn = TRUE): call
\* fn(cell, pos) on the candidates in order and return at the first stopOn.
\* The loop leaves at the first candidate whose row is missing (TypeError) or
\* whose call gives stopOn; the calls made are those up to that candidate.
predScan(d, fn, cands, stopOn) ==
    LET leaves == {k \in 1..Len(cands) :
                      \/ ~hasRow(d, cands[k].y)
                      \/ applyPred(fn, getCell(d, cands[k]), cands[k]) = stopOn}
        first == CHOOSE k \in leaves : \A m \in leaves : k <= m
        callsTo(n) == [k \in 1..n |-> <<getCell(d, cands[k]), cands[k]>>]
    IN IF leaves = {} THEN [ret |-> IF stopOn THEN "false" ELSE "true", calls |-> callsTo(Len(cands))]
       ELSE IF ~hasRow(d, cands[first].y) THEN [ret |-> "throw", calls |-> callsTo(first - 1)]
       ELSE [ret |-> IF stopOn THEN "true" ELSE "false", calls |-> callsTo(first)]

everyBox(d, box, fn) == predScan(d, fn, boxCands(box), FALSE)
everyCol(d, x, fn) == predScan(d, fn, colCands(x), FALSE)
everyGrid(d, fn) == predScan(d, fn, gridCands(d, 0), FALSE)
everyRow(d, y, fn) ==
    IF hasRow(d, y) THEN predScan(d, fn, rowCands(d, y), FALSE) ELSE [ret |-> "throw", calls |-> <<>>]

someBox(d, box, fn) == predScan(d, fn, boxCands(box), TRUE)
someCol(d, x, fn) == predScan(d, fn, colCands(x), TRUE)
someGrid(d, fn) == predScan(d, fn, gridCands(d, 0), TRUE)
someRow(d, y, fn) ==
    IF hasRow(d, y) THEN predScan(d, fn, rowCands(d, y), TRUE) ELSE [ret |-> "throw", calls |-> <<>>]

\* GridSvc.count: for (const pos of iterateMatrix(9)) if (fnCond(this.getCell(pos), pos)) asserts++
\* The loop leaves early only at a position whose row is missing (TypeError).
count(d, fnCond) ==
    LET missing == {k \in 1..81 : ~hasRow(d, iterateMatrix9[k].y)}
        n == IF missing = {} THEN 81 ELSE (CHOOSE k \in missing : \A m \in missing : k <= m) - 1
    IN [ret |-> IF missing = {} THEN "number" ELSE "throw",
        calls |-> [k \in 1..n |-> <<getCell(d, iterateMatrix9[k]), iterateMatrix9[k]>>],
        asserts |-> Cardinality({k \in 1..n :
                        applyPred(fnCond, getCell(d, iterateMatrix9[k]), iterateMatrix9[k])})]

\* a grid instance over one of the test grids, before any call
ScanInit ==
    /\ data \in TestGrids
    /\ op = [name |-> "none"]
    /\ ret = "none"
    /\ calls = <<>>
    /\ value = <<>>
    /\ i = 0
    /\ j = 0
    /\ pc = "scan"
    /\ rowsH = <<>>
    /\ matsH = <<>>
    /\ grids = <<>>
    /\ sols = <<>>
    /\ held = <<>>
    /\ text = [of |-> 0, tokens |-> <<>>]
    /\ thrown = [name |-> "none"]
    /\ res = 0
    /\ nops = 0

\* one call of an every / some method and its return
Scanned(o, r) ==
    /\ pc = "scan"
    /\ op' = o
    /\ ret' = r.ret
    /\ calls' = r.calls
    /\ pc' = "returned"
    /\ UNCHANGED <<data, genVars, heapVars>>

\* one call of count: the number returned is kept in res
Count(fnCond) ==
    /\ pc = "scan"
    /\ \E r \in {count(data, fnCond)} :
         /\ op' = [name |-> "count", idx |-> 0, fn |-> fnCond]
         /\ ret' = r.ret
         /\ calls' = r.calls
         /\ res' = r.asserts
    /\ pc' = "returned"
    /\ UNCHANGED <<data, genVars, rowsH, matsH, grids, sols, held, text, thrown, nops>>

ScanNext ==
    \/ \E box \in Idx, fn \in PredFns :
          Scanned([name |-> "everyBox", idx |-> box, fn |-> fn], everyBox(data, box, fn))
    \/ \E x \in Idx, fn \in PredFns :
          Scanned([name |-> "everyCol", idx |-> x, fn |-> fn], everyCol(data, x, fn))
    \/ \E fn \in PredFns :
          Scanned([name |-> "everyGrid", idx |-> 0, fn |-> fn], everyGrid(data, fn))
    \/ \E y \in Idx, fn \in PredFns :
          Scanned([name |-> "everyRow", idx |-> y, fn |-> fn], everyRow(data, y, fn))
    \/ \E box \in Idx, fn \in PredFns :
          Scanned([name |-> "someBox", idx |-> box, fn |-> fn], someBox(data, box, fn))
    \/ \E x \in Idx, fn \in PredFns :
          Scanned([name |-> "someCol", idx |-> x, fn |-> fn], someCol(data, x, fn))
    \/ \E fn \in PredFns :
          Scanned([name |-> "someGrid", idx |-> 0, fn |-> fn], someGrid(data, fn))
    \/ \E y \in Idx, fn \in PredFns :
          Scanned([name |-> "someRow", idx |-> y, fn |-> fn], someRow(data, y, fn))
    \/ \E fnCond \in PredFns : Count(fnCond)

SpecScan == ScanInit /\ [][ScanNext]_vars

-----------------------------------------------------------------------------
\* C12: the every / some methods invoke the predicate only on cells of their
\* scope, each with its own position, in the scope's fixed order (increasing
\* column for a row, increasing row for a column, row-major for a box and for
\* the grid), and stop at the first cell that decides the result: the first
\* false for every, the first true for some; all cells of the scope are
\* visited when no cell decides it, and count visits all 81 and returns the
\* number of cells satisfying the predicate.
EveryNames == {"everyBox", "everyCol", "everyGrid", "everyRow"}
SomeNames == {"someBox", "someCol", "someGrid", "someRow"}
ScanNames == EveryNames \cup SomeNames \cup {"count"}

\* the positions of the operation's scope in the order the claim gives
scopeOrder(o) ==
    CASE o.name \in {"everyRow", "someRow"} -> [k \in 1..9 |-> [y |-> o.idx, x |-> k - 1]]
      [] o.name \in {"everyCol", "someCol"} -> [k \in 1..9 |-> [y |-> k - 1, x |-> o.idx]]
      [] o.name \in {"everyBox", "someBox"} ->
            [k \in 1..9 |-> [y |-> 3 * (o.idx \div 3) + ((k - 1) \div 3),
                             x |-> 3 * (o.idx % 3) + ((k - 1) % 3)]]
      [] OTHER -> [k \in 1..81 |-> [y |-> (k - 1) \div 9, x |-> (k - 1) % 9]]

\* the first Len(calls) positions of the scope were visited, in order, each
\* call receiving the value of the cell and its own position
visitsInOrder ==
    /\ Len(calls) <= Len(scopeOrder(op))
    /\ \A k \in 1..Len(calls) :
          /\ calls[k][2] = scopeOrder(op)[k]
          /\ calls[k][1] = CellAt(data, 9 * calls[k][2].y + calls[k][2].x)

predTrue(c) == applyPred(op.fn, c[1], c[2])

ScanInOrderUntilDecided ==
    (op.name \in ScanNames /\ isNineByNine(data)) =>
        /\ visitsInOrder
        /\ Len(calls) > 0
        /\ \A k \in 1..(Len(calls) - 1) :
              (op.name \in EveryNames => predTrue(calls[k]))
                  /\ (op.name \in SomeNames => ~predTrue(calls[k]))
        /\ op.name \in EveryNames =>
              IF predTrue(calls[Len(calls)])
              THEN ret = "true" /\ Len(calls) = Len(scopeOrder(op))
              ELSE ret = "false"
        /\ op.name \in SomeNames =>
              IF predTrue(calls[Len(calls)])
              THEN ret = "true"
              ELSE ret = "false" /\ Len(calls) = Len(scopeOrder(op))
        /\ op.name = "count" =>
              /\ Len(calls) = 81
              /\ res = Cardinality({k \in 1..81 : predTrue(calls[k])})

\* everyBox on the middle box stopped at its second cell
ScanStoppedWitness ==
    /\ op.name = "everyBox"
    /\ isNineByNine(data)
    /\ Len(calls) = 2
    /\ calls[2][2] = [y |-> 3, x |-> 4]
    /\ ret = "false"

\* C12 as stated: the predicate is invoked on exactly the 9 cells of the scope
\* (the 81 cells for everyGrid, someGrid and count), in the fixed order.
ScanVisitsWholeScope ==
    (op.name \in ScanNames /\ isNineByNine(data)) =>
        /\ visitsInOrder
        /\ Len(calls) = Len(scopeOrder(op))

-----------------------------------------------------------------------------
\* GridSvc join methods (src/unnamed/part_004); a string is the sequence of
\* its tokens, a cell or a separator being one token and '' none

\* String(cell), as str += cell and Array.prototype.join produce it
cellToken(cell) == IF cell = undefined THEN <<"undefined">> ELSE <<numToken(cell)>>

\* Array.prototype.join: parts[k] sep parts[k+1] sep ...
RECURSIVE arrayJoin(_, _, _)
arrayJoin(parts, sep, k) ==
    IF k > Len(parts) THEN <<>>
    ELSE IF k = Len(parts) THEN parts[k]
    ELSE parts[k] \o sep \o arrayJoin(parts, sep, k + 1)

\* a destructured property with default '': { x = '' } or { x: colSep = '' }
sepOf(separators, key) == IF key \in DOMAIN separators THEN separators[key] ELSE <<>>

\* GridSvc.joinBox: { y: rowSep = '', x: colSep = '' }; the first cell alone,
\* colSep before a cell with pos.x === 0, rowSep before any other cell
RECURSIVE joinBox(_, _, _, _, _)
joinBox(d, box, separators, k, str) ==
    IF k > 9 THEN [ret |-> "string", str |-> str]
    ELSE LET pos == iterateMatrix3[k]
             curr == sumPos(pos, getPosFromBox(box))
         IN IF ~hasRow(d, curr.y) THEN [ret |-> "throw", str |-> <<>>]
            ELSE joinBox(d, box, separators, k + 1,
                    IF pos.y = 0 /\ pos.x = 0 THEN str \o cellToken(getCell(d, curr))
                    ELSE IF pos.x = 0 THEN str \o sepOf(separators, "x") \o cellToken(getCell(d, curr))
                    ELSE str \o sepOf(separators, "y") \o cellToken(getCell(d, curr)))

\* GridSvc.joinCol
RECURSIVE joinCol(_, _, _, _, _)
joinCol(d, x, rowSeparator, k, str) ==
    IF k > 9 THEN [ret |-> "string", str |-> str]
    ELSE LET y == iterateArray9[k]
         IN IF ~hasRow(d, y) THEN [ret |-> "throw", str |-> <<>>]
            ELSE joinCol(d, x, rowSeparator, k + 1,
                    IF y = 0 THEN str \o cellToken(getCell(d, [y |-> y, x |-> x]))
                    ELSE str \o rowSeparator \o cellToken(getCell(d, [y |-> y, x |-> x])))

\* GridSvc.joinGrid: { x = '', y = '' }; this.#data.map(Row => Row.join(y)).join(x)
joinGrid(d, separators) ==
    [ret |-> "string",
     str |-> arrayJoin([r \in 1..Len(d) |->
                           arrayJoin([c \in 1..Len(d[r]) |-> cellToken(d[r][c])], sepOf(separators, "y"), 1)],
                       sepOf(separators, "x"), 1)]

\* GridSvc.joinRow: this.#data[rowIndex].join(colSeparator)
joinRow(d, rowIndex, colSeparator) ==
    IF ~hasRow(d, rowIndex) THEN [ret |-> "throw", str |-> <<>>]
    ELSE [ret |-> "string",
          str |-> arrayJoin([c \in 1..Len(d[rowIndex + 1]) |-> cellToken(d[rowIndex + 1][c])], colSeparator, 1)]

\* SolutionService.toString: this.grid.joinGrid({ col, row })
toString(d) ==
    joinGrid(d, [col |-> <<" | ">>, row |-> <<"\n- - - + - - - + - - -\n">>])

\* the separators objects the callers pass: both properties out of '', ','
\* and ';', or only one
SepObjects ==
    {[x |-> c, y |-> r] : c \in {<<>>, <<",">>, <<";">>}, r \in {<<>>, <<",">>, <<";">>}}
        \cup {[x |-> <<",">>], [y |-> <<";">>]}

\* a grid instance over one of the test grids, before any join
JoinInit ==
    /\ data \in TestGrids
    /\ op = [name |-> "none"]
    /\ ret = "none"
    /\ calls = <<>>
    /\ value = <<>>
    /\ i = 0
    /\ j = 0
    /\ pc = "join"
    /\ rowsH = <<>>
    /\ matsH = <<>>
    /\ grids = <<>>
    /\ sols = <<>>
    /\ held = <<>>
    /\ text = [of |-> 0, tokens |-> <<>>]
    /\ thrown = [name |-> "none"]
    /\ res = 0
    /\ nops = 0

\* one call of a join method: the string returned is kept in text
Joined(o, r) ==
    /\ pc = "join"
    /\ op' = o
    /\ ret' = r.ret
    /\ text' = [of |-> 0, tokens |-> r.str]
    /\ pc' = "returned"
    /\ UNCHANGED <<data, calls, genVars, rowsH, matsH, grids, sols, held, thrown, res, nops>>

JoinNext ==
    \/ \E box \in Idx, separators \in SepObjects :
          Joined([name |-> "joinBox", idx |-> box, seps |-> separators], joinBox(data, box, separators, 1, <<>>))
    \/ \E x \in Idx, rowSeparator \in {<<>>, <<",">>, <<";">>} :
          Joined([name |-> "joinCol", idx |-> x, sep |-> rowSeparator], joinCol(data, x, rowSeparator, 1, <<>>))
    \/ \E separators \in SepObjects :
          Joined([name |-> "joinGrid", seps |-> separators], joinGrid(data, separators))
    \/ \E rowIndex \in Idx, colSeparator \in {<<>>, <<",">>, <<";">>} :
          Joined([name |-> "joinRow", idx |-> rowIndex, sep |-> colSeparator], joinRow(data, rowIndex, colSeparator))
    \/ Joined([name |-> "toString"], toString(data))

SpecJoin == JoinInit /\ [][JoinNext]_vars

-----------------------------------------------------------------------------
\* C13: joinGrid(separators) is the nine strings joinRow(r, column separator),
\* r = 0..8, joined by the row separator, and joinBox(box, separators) places
\* the column separator between the cells of a row of the box and the row
\* separator between its rows; the column separator is separators.x (colSep)
\* and the row separator separators.y (rowSep).
boxRowText(d, box, r, colSep) ==
    arrayJoin([c \in 1..3 |-> cellToken(d[3 * (box \div 3) + r][3 * (box % 3) + c])], colSep, 1)

JoinsAgreeOnSeparators ==
    /\ (op.name = "joinGrid" /\ isNineByNine(data)) =>
          text.tokens = arrayJoin([r \in 1..9 |-> joinRow(data, r - 1, sepOf(op.seps, "x")).str],
                                  sepOf(op.seps, "y"), 1)
    /\ (op.name = "joinBox" /\ isNineByNine(data)) =>
          text.tokens = arrayJoin([r \in 1..3 |-> boxRowText(data, op.idx, r, sepOf(op.seps, "x"))],
                                  sepOf(op.seps, "y"), 1)

-----------------------------------------------------------------------------
\* TimerService (src/src/sudoku/domain/services/timer.service.ts); a string is
\* the sequence of its characters

\* a JavaScript number: a finite integer or NaN
Num(n) == [kind |-> "number", n |-> n]
NaN == [kind |-> "NaN", n |-> 0]

\* what a missing array element destructures to
undefinedValue == [kind |-> "undefined", n |-> 0]

\* String(unit) for an integer unit >= 0
RECURSIVE String(_)
String(unit) ==
    IF unit < 10 THEN <<numToken(unit)>> ELSE String(unit \div 10) \o <<numToken(unit % 10)>>

\* TimerService.#parseUnit: '0'.repeat(digits - 1) + unit, or String(unit)
parseUnit(unit, digits) ==
    IF unit < 10 * (digits - 1) THEN [k \in 1..(digits - 1) |-> "0"] \o String(unit) ELSE String(unit)

\* TimerService.parseString
parseString(d) ==
    LET seconds == parseUnit(d % 60, 2)
        minutes == parseUnit((d % 3600) \div 60, 2)
        hours == parseUnit(d \div 3600, 2)
    IN hours \o <<":">> \o minutes \o <<":">> \o seconds

\* timerLike.split(':'): the fields between the colons
RECURSIVE split(_, _, _, _)
split(t, k, field, fields) ==
    IF k > Len(t) THEN Append(fields, field)
    ELSE IF t[k] = ":" THEN split(t, k + 1, <<>>, Append(fields, field))
    ELSE split(t, k + 1, Append(field, t[k]), fields)

\* the value of a string of decimal digits
RECURSIVE decimal(_, _, _)
decimal(field, k, acc) ==
    IF k > Len(field) THEN acc ELSE decimal(field, k + 1, 10 * acc + tokenNum(field[k]))

\* Number(field) for strings of digits and letters: '' is 0, digits are their
\* decimal value, anything else is NaN
Number(field) ==
    IF field = <<>> THEN Num(0)
    ELSE IF \A k \in 1..Len(field) : isNumToken(field[k]) THEN Num(decimal(field, 1, 0))
    ELSE NaN

\* Number.isNaN(v): true for the number NaN only (undefined is not converted)
NumberIsNaN(v) == v.kind = "NaN"

\* hours * 3600 + minutes * 60 + seconds: NaN as soon as one operand is NaN or undefined
timeSum(hours, minutes, seconds) ==
    IF hours.kind = "number" /\ minutes.kind = "number" /\ seconds.kind = "number"
    THEN Num(hours.n * 3600 + minutes.n * 60 + seconds.n)
    ELSE NaN

\* TimerService.fromString
fromString(timerLike) ==
    LET numbers == [k \in 1..Len(split(timerLike, 1, <<>>, <<>>)) |->
                        Number(split(timerLike, 1, <<>>, <<>>)[k])]
        hours == IF Len(numbers) >= 1 THEN numbers[1] ELSE undefinedValue
        minutes == IF Len(numbers) >= 2 THEN numbers[2] ELSE undefinedValue
        seconds == IF Len(numbers) >= 3 THEN numbers[3] ELSE undefinedValue
    IN IF NumberIsNaN(hours) THEN [ret |-> "throw", error |-> "invalid hours", data |-> NaN]
       ELSE IF NumberIsNaN(minutes) THEN [ret |-> "throw", error |-> "invalid minutes", data |-> NaN]
       ELSE IF NumberIsNaN(seconds) THEN [ret |-> "throw", error |-> "invalid seconds", data |-> NaN]
       ELSE [ret |-> "timer", error |-> "none", data |-> timeSum(hours, minutes, seconds)]

\* strings given to fromString besides formatted times: "", "12", "12:30",
\* "ab:00:00", "12:ab:00", "12:30:ab", "::", "1:2:3:4", "12:30:15", "1:2:3"
TimerTexts ==
    { <<>>,
      <<"1", "2">>,
      <<"1", "2", ":", "3", "0">>,
      <<"a", "b", ":", "0", "0", ":", "0", "0">>,
      <<"1", "2", ":", "a", "b", ":", "0", "0">>,
      <<"1", "2", ":", "3", "0", ":", "a", "b">>,
      <<":", ":">>,
      <<"1", ":", "2", ":", "3", ":", "4">>,
      <<"1", "2", ":", "3", "0", ":", "1", "5">>,
      <<"1", ":", "2", ":", "3">> }

\* the data values formatted by parseString: every second up to MaxSeconds,
\* and 10:00:00, 23:59:59, 99:59:59, 100:00:00
TimerData == 0..MaxSeconds \cup {36000, 86399, 359999, 360000}

\* a string to parse, or a number of seconds to format
TimerInit ==
    /\ \/ \E t \in TimerTexts : text = [of |-> 0, tokens |-> t] /\ res = 0 /\ pc = "text"
       \/ \E d \in TimerData : text = [of |-> 0, tokens |-> <<>>] /\ res = d /\ pc = "seconds"
    /\ data = [kind |-> "none", n |-> 0]
    /\ op = [name |-> "none"]
    /\ ret = "none"
    /\ thrown = [name |-> "none"]
    /\ calls = <<>>
    /\ value = <<>>
    /\ i = 0
    /\ j = 0
    /\ rowsH = <<>>
    /\ matsH = <<>>
    /\ grids = <<>>
    /\ sols = <<>>
    /\ held = <<>>
    /\ nops = 0

\* TimerService.parseString(res): the string is kept in text
TimerParseString ==
    /\ pc = "seconds"
    /\ op' = [name |-> "parseString"]
    /\ text' = [of |-> 1, tokens |-> parseString(res)]
    /\ pc' = "text"
    /\ UNCHANGED <<data, ret, thrown, res, calls, genVars, rowsH, matsH, grids, sols, held, nops>>

\* TimerService.fromString(text): data is the #data of the timer returned
TimerFromString ==
    /\ pc = "text"
    /\ \E r \in {fromString(text.tokens)} :
         /\ ret' = r.ret
         /\ thrown' = [name |-> IF r.ret = "throw" THEN "Error" ELSE "none", message |-> r.error]
         /\ data' = r.data
    /\ op' = [name |-> "fromString"]
    /\ pc' = "returned"
    /\ UNCHANGED <<text, res, calls, genVars, rowsH, matsH, grids, sols, held, nops>>

TimerNext == TimerParseString \/ TimerFromString

SpecTimer == TimerInit /\ [][TimerNext]_vars

-----------------------------------------------------------------------------
\* C14: fromString throws for every string that is not three ':'-separated
\* fields of decimal digits; when it returns, the timer's data is the integer
\* hours*3600 + minutes*60 + seconds; and fromString(parseString(d)).data = d.
isDigits(field) == Len(field) > 0 /\ \A k \in 1..Len(field) : field[k] \in {DigitTokens[n] : n \in 1..10}

\* the fields of t, cut at every ":"
fieldsOf(t) ==
    LET colons == <<0>> \o SelectSeq([k \in 1..Len(t) |-> IF t[k] = ":" THEN k ELSE 0], LAMBDA k : k > 0)
                       \o <<Len(t) + 1>>
    IN [f \in 1..(Len(colons) - 1) |-> SubSeq(t, colons[f] + 1, colons[f + 1] - 1)]

isTimeText(t) == Len(fieldsOf(t)) = 3 /\ \A f \in 1..3 : isDigits(fieldsOf(t)[f])

TimerFromStringContract ==
    op.name = "fromString" =>
        /\ ~isTimeText(text.tokens) => ret = "throw"
        /\ ret = "timer" =>
              /\ data.kind = "number"
              /\ isTimeText(text.tokens) =>
                    data.n = decimal(fieldsOf(text.tokens)[1], 1, 0) * 3600
                                + decimal(fieldsOf(text.tokens)[2], 1, 0) * 60
                                + decimal(fieldsOf(text.tokens)[3], 1, 0)
        /\ text.of = 1 => ret = "timer" /\ data = Num(res)

-----------------------------------------------------------------------------
\* C15: every iteration of the inner loop of #fillSolution either leaves both
\* cells of the pair (i, j) / (j, i) filled and all other cells as they were,
\* or, when one of the two is still 0 after the nine candidates, empties all
\* 81 cells and resumes at i = 0, j = 0; nothing is raised on that path.
restarted ==
    /\ value' = createMatrix(9, 0)
    /\ i' = 0
    /\ j' = 0
    /\ pc' = "fill"
    /\ thrown' = thrown
    /\ \E numbers \in randomNumbers : needsRetry(fillPair(value, numbers, i, j), i, j)

pairPlaced ==
    /\ At(value', i, j) # 0
    /\ At(value', j, i) # 0
    /\ \A p \in 0..80 :
          (CellAt(value, p) # 0 \/ p \notin {9 * i + j, 9 * j + i}) => CellAt(value', p) = CellAt(value, p)
    /\ \E numbers \in randomNumbers : ~needsRetry(fillPair(value, numbers, i, j), i, j)

GlobalRestartStep == (pc = "fill" /\ i < 9) => (restarted \/ pairPlaced)

GlobalRestart == [][GlobalRestartStep]_vars

\* digits were placed and some shuffle leaves a cell of the next pair empty
RestartDueWitness ==
    /\ pc = "fill"
    /\ i > 0
    /\ i < 9
    /\ \E p \in 0..80 : CellAt(value, p) # 0
    /\ \E numbers \in randomNumbers : needsRetry(fillPair(value, numbers, i, j), i, j)

-----------------------------------------------------------------------------
\* SolutionService.#cellIsSafe applied to partial grids

\* the call with row and column exchanged: { row: col, col: row }
cellIsSafeTransposed(v, num, position) ==
    IF cellIsSafe(v, num, position.x, position.y) THEN "true" ELSE "false"

\* #cellIsSafe(value, num, { row, col }) for the position { y: row, x: col }
cellIsSafeAt(v, num, position) ==
    IF cellIsSafe(v, num, position.y, position.x) THEN "true" ELSE "false"

\* partial grids: the empty grid, the empty grid with one digit placed, and a
\* valid solution with one row, one column or one box emptied
PartialGrids ==
    {createMatrix(9, 0)}
        \cup {Put(createMatrix(9, 0), q.y, q.x, n) : q \in Positions, n \in {5, 9}}
        \cup {[r \in 1..9 |-> [c \in 1..9 |-> IF r = k THEN 0 ELSE BaseSolution[r][c]]] : k \in {1, 5}}
        \cup {[r \in 1..9 |-> [c \in 1..9 |-> IF c = k THEN 0 ELSE BaseSolution[r][c]]] : k \in {9}}
        \cup {[r \in 1..9 |-> [c \in 1..9 |->
                 IF getBoxFromPos([y |-> r - 1, x |-> c - 1]) = k THEN 0 ELSE BaseSolution[r][c]]] : k \in {4}}

SafeInit ==
    /\ data \in PartialGrids
    /\ op = [name |-> "none"]
    /\ ret = "none"
    /\ calls = <<>>
    /\ value = <<>>
    /\ i = 0
    /\ j = 0
    /\ pc = "safe"
    /\ rowsH = <<>>
    /\ matsH = <<>>
    /\ grids = <<>>
    /\ sols = <<>>
    /\ held = <<>>
    /\ text = [of |-> 0, tokens |-> <<>>]
    /\ thrown = [name |-> "none"]
    /\ res = 0
    /\ nops = 0

\* one call of #cellIsSafe(data, num, position)
CellIsSafe(num, position) ==
    /\ pc = "safe"
    /\ op' = [name |-> "cellIsSafe", num |-> num, pos |-> position]
    /\ ret' = cellIsSafeAt(data, num, position)
    /\ pc' = "returned"
    /\ UNCHANGED <<data, calls, genVars, heapVars>>

SafeNext == \E num \in {5, 6}, position \in QueryPositions : CellIsSafe(num, position)

SpecSafe == SafeInit /\ [][SafeNext]_vars

-----------------------------------------------------------------------------
\* C16: #cellIsSafe(v, n, p) is true exactly when v[p] = 0 and no position
\* related to p holds n, and the nine cells scanned through box.row(i, row),
\* box.col(i, col), i = 0..8, are exactly the nine cells of the box of p.
noRelatedHolds(v, num, p) ==
    \A q \in QueryPositions : areRelated(p, q) => At(v, q.y, q.x) # num

boxScan(p) == {[y |-> box_row(k, p.y), x |-> box_col(k, p.x)] : k \in 0..8}

-----------------------------------------------------------------------------
\* I18nSvc (src/unnamed/part_000): data is the value of the I18nObs observable,
\* calls the changeLang / load calls made so far, each with the place it has
\* reached and, once its promise has resolved, its turn in the microtask queue

\* the supported languages (LANGS) and the idle one (IDLE_LANG)
LANGS == {"en", "es"}
IDLE_LANG == "idle"

\* languages a caller can pass, one of them unsupported
Langs == LANGS \cup {"xx"}

\* what the repository's getLang() resolves to: a language or null
StoredLangs == Langs \cup {"null"}

\* IDLE_I18N: the idle language and the fallback namespace
IDLE_I18N == [lang |-> IDLE_LANG, ns |-> "fallback"]

\* the i18n built from the namespace getLocale(lang) resolved to
loadedI18n(lang) == [lang |-> lang, ns |-> lang]

\* new I18nObs(): { ...IDLE_I18N }
I18nInit ==
    /\ data = IDLE_I18N
    /\ calls = <<>>
    /\ pc = "i18n"
    /\ op = [name |-> "none"]
    /\ ret = "none"
    /\ value = <<>>
    /\ i = 0
    /\ j = 0
    /\ rowsH = <<>>
    /\ matsH = <<>>
    /\ grids = <<>>
    /\ sols = <<>>
    /\ held = <<>>
    /\ text = [of |-> 0, tokens |-> <<>>]
    /\ thrown = [name |-> "none"]
    /\ res = 0
    /\ nops = 0

\* some earlier call has not completed
pending == \E k \in 1..Len(calls) : calls[k].at # "done"

\* the call waits in the microtask queue
ready(c) == c.at \in {"langReady", "localeReady"}

\* the turn of the promise resolved next: behind every turn given so far
RECURSIVE lastTurn(_)
lastTurn(k) == IF k = 0 THEN 0 ELSE IF calls[k].turn > lastTurn(k - 1) THEN calls[k].turn ELSE lastTurn(k - 1)

nextTurn == 1 + lastTurn(Len(calls))

\* changeLang up to its await: an unsupported lang sets IDLE_I18N and returns,
\* a supported one asks the repository for the locale and suspends
changeLangStart(obs, lang) ==
    IF lang \notin LANGS
    THEN [data |-> IDLE_I18N, at |-> "done"]
    ELSE [data |-> obs, at |-> "getLocale"]

\* a caller calls changeLang(lang)
ChangeLang(lang) ==
    /\ pc = "i18n"
    /\ Len(calls) < MaxCalls
    /\ data' = changeLangStart(data, lang).data
    /\ calls' = Append(calls, [via |-> "changeLang", at |-> changeLangStart(data, lang).at, lang |-> lang,
                               turn |-> 0, overlapped |-> pending])
    /\ op' = [name |-> "changeLang", lang |-> lang]
    /\ UNCHANGED <<pc, ret, genVars, heapVars>>

\* a caller calls load(): it suspends on getLang(), which will give stored
Load(stored) ==
    /\ pc = "i18n"
    /\ Len(calls) < MaxCalls
    /\ calls' = Append(calls, [via |-> "load", at |-> "getLang", lang |-> stored,
                               turn |-> 0, overlapped |-> pending])
    /\ op' = [name |-> "load", lang |-> stored]
    /\ UNCHANGED <<data, pc, ret, genVars, heapVars>>

\* the repository's promise awaited by call k resolves: the rest of the call
\* is queued behind the continuations queued before
Resolve(k) ==
    /\ pc = "i18n"
    /\ k \in 1..Len(calls)
    /\ calls[k].at \in {"getLang", "getLocale"}
    /\ calls' = [calls EXCEPT ![k].turn = nextTurn,
                              ![k].at = IF calls[k].at = "getLang" THEN "langReady" ELSE "localeReady"]
    /\ op' = [name |-> "resolve", call |-> k]
    /\ UNCHANGED <<data, pc, ret, genVars, heapVars>>

\* the continuation at the head of the queue runs: after getLang, load calls
\* changeLang(lang) unless lang is null; after getLocale, changeLang sets the
\* observable to the i18n of its lang
Resume(k) ==
    /\ pc = "i18n"
    /\ k \in 1..Len(calls)
    /\ ready(calls[k])
    /\ \A m \in 1..Len(calls) : ready(calls[m]) => calls[k].turn <= calls[m].turn
    /\ IF calls[k].at = "langReady"
       THEN IF calls[k].lang = "null"
            THEN data' = data /\ calls' = [calls EXCEPT ![k].at = "done"]
            ELSE /\ data' = changeLangStart(data, calls[k].lang).data
                 /\ calls' = [calls EXCEPT ![k].at = changeLangStart(data, calls[k].lang).at]
       ELSE /\ data' = loadedI18n(calls[k].lang)
            /\ calls' = [calls EXCEPT ![k].at = "done"]
    /\ op' = [name |-> "resume", call |-> k]
    /\ UNCHANGED <<pc, ret, genVars, heapVars>>

I18nNext ==
    \/ \E lang \in Langs : ChangeLang(lang)
    \/ \E stored \in StoredLangs : Load(stored)
    \/ \E k \in 1..MaxCalls : Resolve(k)
    \/ \E k \in 1..MaxCalls : Resume(k)

SpecI18n == I18nInit /\ [][I18nNext]_vars

-----------------------------------------------------------------------------
\* C17: when changeLang calls were made, the last one before the load of an
\* earlier one had completed, and all of them have completed, the observable
\* holds the language and the namespace of the last call (the idle i18n when
\* that language is unsupported).
allDone == \A k \in 1..Len(calls) : calls[k].at = "done"

LastRequestWins ==
    (/\ pc = "i18n"
     /\ Len(calls) >= 2
     /\ \A k \in 1..Len(calls) : calls[k].via = "changeLang"
     /\ calls[Len(calls)].overlapped
     /\ allDone) =>
        data = IF calls[Len(calls)].lang \in LANGS THEN loadedI18n(calls[Len(calls)].lang) ELSE IDLE_I18N

====
